---------------------------- MODULE Spec2Model ----------------------------
(***************************************************************************)
(* Model of the two Lambda handlers of update-checker:                     *)
(*   src/aws/lambda/update-checker.py       (scheduled patch-notes check)  *)
(*   src/aws/lambda/line-webhook-handler.py (LINE webhook -> Bedrock)      *)
(*                                                                         *)
(* Every external service (HTTP fetch, DynamoDB, LINE push/reply, Bedrock) *)
(* is an environment whose call either succeeds or raises; the handlers'   *)
(* control flow, try/except blocks and return values are the code's.       *)
(***************************************************************************)
EXTENDS Naturals, Sequences, FiniteSets, TLC

VARIABLES
    \* ---- update-checker.py ----
    env,                  \* module-level configuration read at lines 11-14
    store,                \* the DynamoDB item under key "latest_patch_info"
    clock,                \* logical time used for last_checked_timestamp
    pc,                   \* position of each invocation of lambda_handler
    patch_info,           \* local of lambda_handler (line 95)
    previous_patch_info,  \* local of lambda_handler (line 103)
    has_changed,          \* local of lambda_handler (line 113)
    result,               \* what the invocation hands back to the host
    log,                  \* history: the steps each invocation performed
    pushed,               \* history: push messages each invocation delivered
    lastWritten,          \* history: the item of the most recent applied put
    lostKey,              \* history: (date, anchor_id) stored but never pushed
    lostStillStored,      \* history: no other record was stored since
    \* ---- line-webhook-handler.py ----
    wenv,                 \* module-level configuration read at lines 10-13
    wpc,                  \* position of the process / of lambda_handler
    event,                \* the inbound request handed to lambda_handler
    signature,            \* local of lambda_handler (line 68)
    body,                 \* local of lambda_handler (line 74)
    idx,                  \* the event handler.handle is at (line 79)
    ai_response,          \* local of handle_message (line 99)
    wresult,              \* what the invocation hands back to the host
    calls,                \* history: model invocations of this request
    replies,              \* history: replies delivered for this request
    replyFailed           \* history: a reply send of this request raised

chkVars == <<env, store, clock, pc, patch_info, previous_patch_info,
             has_changed, result, log, pushed, lastWritten, lostKey,
             lostStillStored>>

webVars == <<wenv, wpc, event, signature, body, idx, ai_response, wresult,
             calls, replies, replyFailed>>

vars == <<chkVars, webVars>>

----------------------------------------------------------------------------
(* Bounds of the model *)

\* number of serialized invocations of the update checker in one behaviour
NumInv == 3

\* number of invocations that may overlap
NumOverlap == 2

\* number of events one webhook body carries at most
MaxEvents == 2

\* the invocation slots; the overlapping ones are the first NumOverlap
Inv == 1..(IF NumInv > NumOverlap THEN NumInv ELSE NumOverlap)

----------------------------------------------------------------------------
(* Values *)

\* Python's None
None == [none |-> TRUE]

\* a value of os.environ.get(...): unset gives None, empty gives ""
EnvVals == {"unset", "empty", "set"}

\* `not X` for a value read from the environment
Missing(v) == v # "set"

\* the fixed push text (update-checker.py line 140)
PushText == "new_update_available"

\* the item key used by lambda_handler (lines 105, 127)
ItemKey == "latest_patch_info"

\* placeholders of scrape_latest_update_info (lines 48-50)
DateUnknown == "date_unknown"
TitleUnknown == "title_unknown"
AnchorUnknown == "anchor_unknown"

\* marks an element that the container does not hold
Absent == "absent"

\* a div of class "anchor" that carries no (or an empty) id attribute
NoId == "no_id"

DateTexts == {"2024-01-01", "2024-02-01"}
TitleTexts == {"title_1"}
AnchorIds == {"patch1"}

\* a patch container as the selectors of lines 44-46 see it
Containers ==
    [date   : DateTexts \cup {Absent},
     title  : TitleTexts \cup {Absent},
     anchor : AnchorIds \cup {Absent, NoId}]

\* a fetched page: the first div of class PatchNotes-live and the first of
\* class PatchNotes-patch, each possibly missing
Pages == [live : Containers \cup {None}, patch : Containers \cup {None}]

\* a handler result: a returned value or an exception leaving the handler
Pending == [kind |-> "pending", statusCode |-> 0, body |-> ""]
ReturnsNone == [kind |-> "return", statusCode |-> 0, body |-> "None"]
Response(code, text) == [kind |-> "return", statusCode |-> code, body |-> text]
Unhandled(exc) == [kind |-> "raise", statusCode |-> 0, body |-> exc]

----------------------------------------------------------------------------
(* update-checker.py: pure parts *)

\* scrape_latest_update_info, lines 38-60, on an already fetched page
scrape_latest_update_info(page) ==
    LET latest_patch_container ==
            IF page.live # None THEN page.live ELSE page.patch
    IN  IF latest_patch_container = None
        THEN None
        ELSE LET c == latest_patch_container
                 patch_date == IF c.date # Absent THEN c.date ELSE DateUnknown
                 patch_title == IF c.title # Absent THEN c.title ELSE TitleUnknown
                 patch_anchor_id ==
                     IF c.anchor # Absent /\ c.anchor # NoId
                     THEN c.anchor ELSE AnchorUnknown
                 patch_url ==
                     IF patch_anchor_id # AnchorUnknown
                     THEN [base |-> "TARGET_SCRAPING_URL", fragment |-> patch_anchor_id]
                     ELSE [base |-> "TARGET_SCRAPING_URL", fragment |-> ""]
             IN  [date      |-> patch_date,
                  title     |-> patch_title,
                  anchor_id |-> patch_anchor_id,
                  url       |-> patch_url]

\* the pages served while invocations overlap: a live container whose
\* title and anchor are present, or no container
OverlapPages ==
    [live  : [date : DateTexts \cup {Absent}, title : TitleTexts,
              anchor : AnchorIds] \cup {None},
     patch : {None}]

\* every record the extractor can produce
Records == {scrape_latest_update_info(p) : p \in Pages} \ {None}

\* a comparison that also looks at the title
HasChangedWithTitle(previous, current) ==
    \/ previous = None
    \/ previous.date # current.date
    \/ previous.anchor_id # current.anchor_id
    \/ previous.title # current.title

\* the change decision of lambda_handler, lines 113-120
HasChanged(previous, current) ==
    \/ previous = None
    \/ previous.date # current.date
    \/ previous.anchor_id # current.anchor_id

\* item_to_save of save_patch_info, lines 78-80
item_to_save(item_key, info, now) ==
    [page_identifier        |-> item_key,
     date                   |-> info.date,
     title                  |-> info.title,
     anchor_id              |-> info.anchor_id,
     url                    |-> info.url,
     last_checked_timestamp |-> now]

\* a put that keeps an existing item
PutIfAbsent(existing, item) == IF existing = None THEN item ELSE existing

\* table.put_item(Item=...) of line 83: no condition expression, so the
\* item replaces whatever is stored
put_item(existing, item) == item

\* table.get_item(...) of lines 67-71
get_item(existing) == existing

\* the change-detection key of a record or stored item
Key(r) == [date |-> r.date, anchor_id |-> r.anchor_id]

\* the PatchRecord fields of a stored item
Fields(item) ==
    [date |-> item.date, title |-> item.title,
     anchor_id |-> item.anchor_id, url |-> item.url]

----------------------------------------------------------------------------
(* update-checker.py: lambda_handler, one action per step *)

Logged(i, what) == log' = [log EXCEPT ![i] = Append(@, what)]

\* the handler leaves with `r`; its locals stay readable until Return
Leave(i, r) ==
    /\ result' = [result EXCEPT ![i] = r]
    /\ pc' = [pc EXCEPT ![i] = "returning"]

NoOtherActive(i) == \A j \in Inv \ {i} : pc[j] \in {"idle", "done"}

\* lines 85-91: the handler is entered; a missing configuration value is
\* only printed, and the handler goes on
Enter(i) ==
    /\ pc[i] = "idle"
    /\ \A j \in Inv : j < i => pc[j] # "idle"
    /\ pc' = [pc EXCEPT ![i] = "scrape"]
    /\ Logged(i, IF \E k \in DOMAIN env : Missing(env[k])
                 THEN "config_error_printed" ELSE "config_ok")
    /\ UNCHANGED <<env, store, clock, patch_info, previous_patch_info,
                   has_changed, result, pushed, lastWritten, lostKey,
                   lostStillStored>>
    /\ UNCHANGED webVars

\* the scheduling trigger starts an invocation after the previous one ended
StartSerial(i) == NoOtherActive(i) /\ Enter(i)

\* the trigger starts an invocation while another one may still run
StartOverlap(i) == Enter(i)

\* lines 94-99: requests.get / raise_for_status raise
ScrapeFails(i) ==
    /\ pc[i] = "scrape"
    /\ Logged(i, "fetch_fail")
    /\ Leave(i, Response(500, "scraping_failed"))
    /\ UNCHANGED <<env, store, clock, patch_info, previous_patch_info,
                   has_changed, pushed, lastWritten, lostKey, lostStillStored>>
    /\ UNCHANGED webVars

\* lines 94-95 and 33-60: the page is fetched and parsed; requests.get
\* raises MissingSchema when the URL is None or empty
ScrapeOk(i, served) ==
    /\ pc[i] = "scrape"
    /\ ~Missing(env.TARGET_SCRAPING_URL)
    /\ \E page \in served :
          patch_info' = [patch_info EXCEPT ![i] = scrape_latest_update_info(page)]
    /\ Logged(i, "fetch_ok")
    /\ pc' = [pc EXCEPT ![i] = "get_previous"]
    /\ UNCHANGED <<env, store, clock, previous_patch_info, has_changed,
                   result, pushed, lastWritten, lostKey, lostStillStored>>
    /\ UNCHANGED webVars

\* lines 102-110: get_previous_patch_info raises
GetPreviousFails(i) ==
    /\ pc[i] = "get_previous"
    /\ Logged(i, "read_fail")
    /\ Leave(i, Response(500, "get_previous_failed"))
    /\ UNCHANGED <<env, store, clock, patch_info, previous_patch_info,
                   has_changed, pushed, lastWritten, lostKey, lostStillStored>>
    /\ UNCHANGED webVars

\* lines 102-106 and 62-71: the stored item, or None; Table(None) and a
\* get_item on an empty table name raise
GetPreviousOk(i) ==
    /\ pc[i] = "get_previous"
    /\ ~Missing(env.DYNAMODB_TABLE_NAME)
    /\ previous_patch_info' = [previous_patch_info EXCEPT ![i] = get_item(store)]
    /\ Logged(i, "read_ok")
    /\ pc' = [pc EXCEPT ![i] = "compare"]
    /\ UNCHANGED <<env, store, clock, patch_info, has_changed, result,
                   pushed, lastWritten, lostKey, lostStillStored>>
    /\ UNCHANGED webVars

\* lines 113-122, outside every try: subscripting a None patch_info raises
\* TypeError, which leaves the handler
Compare(i) ==
    /\ pc[i] = "compare"
    /\ IF previous_patch_info[i] # None /\ patch_info[i] = None
       THEN /\ Logged(i, "compare_raise")
            /\ Leave(i, Unhandled("TypeError"))
            /\ UNCHANGED has_changed
       ELSE /\ has_changed' = [has_changed EXCEPT ![i] =
                                 HasChanged(previous_patch_info[i], patch_info[i])]
            /\ Logged(i, "compare")
            /\ pc' = [pc EXCEPT ![i] = IF has_changed'[i] THEN "save" ELSE "end"]
            /\ UNCHANGED result
    /\ UNCHANGED <<env, store, clock, patch_info, previous_patch_info,
                   pushed, lastWritten, lostKey, lostStillStored>>
    /\ UNCHANGED webVars

\* history kept beside a put of `item`
NotePut(item) ==
    /\ lastWritten' = item
    /\ lostStillStored' = (lostStillStored /\ Key(item) = lostKey)

\* lines 124-133 and 78-79: item_to_save.update(None) raises TypeError
\* before any put, and the handler answers 500
SaveRaisesTypeError(i) ==
    /\ pc[i] = "save"
    /\ has_changed[i]
    /\ patch_info[i] = None
    /\ Logged(i, "save_type_error")
    /\ Leave(i, Response(500, "save_failed"))
    /\ UNCHANGED <<env, store, clock, patch_info, previous_patch_info,
                   has_changed, pushed, lastWritten, lostKey, lostStillStored>>
    /\ UNCHANGED webVars

\* a failed save after which the handler goes on to the push
SaveFailsAndGoesOn(i) ==
    /\ pc[i] = "save"
    /\ has_changed[i]
    /\ patch_info[i] # None
    /\ Logged(i, "write_fail")
    /\ pc' = [pc EXCEPT ![i] = "send"]
    /\ UNCHANGED <<env, store, clock, patch_info, previous_patch_info,
                   has_changed, result, pushed, lastWritten, lostKey,
                   lostStillStored>>
    /\ UNCHANGED webVars

\* lines 124-133 and 83: put_item raises and the handler answers 500
SaveFails(i) ==
    /\ pc[i] = "save"
    /\ has_changed[i]
    /\ patch_info[i] # None
    /\ Logged(i, "write_fail")
    /\ Leave(i, Response(500, "save_failed"))
    /\ UNCHANGED <<env, store, clock, patch_info, previous_patch_info,
                   has_changed, pushed, lastWritten, lostKey, lostStillStored>>
    /\ UNCHANGED webVars

\* lines 124-129 and 73-83: the item is built and put
SaveOk(i) ==
    /\ pc[i] = "save"
    /\ has_changed[i]
    /\ patch_info[i] # None
    /\ ~Missing(env.DYNAMODB_TABLE_NAME)
    /\ LET item == item_to_save(ItemKey, patch_info[i], clock)
       IN  /\ store' = put_item(store, item)
           /\ NotePut(item)
    /\ clock' = clock + 1
    /\ Logged(i, "write_ok")
    /\ pc' = [pc EXCEPT ![i] = "send"]
    /\ UNCHANGED <<env, patch_info, previous_patch_info, has_changed,
                   result, pushed, lostKey>>
    /\ UNCHANGED webVars

\* a failed push after which the stored item is put back
SendFailsAndRollsBack(i) ==
    /\ pc[i] = "send"
    /\ Logged(i, "push_fail")
    /\ Leave(i, Response(500, "send_failed"))
    /\ store' = previous_patch_info[i]
    /\ lostKey' = Key(patch_info[i])
    /\ lostStillStored' = (store' # None /\ Key(store') = Key(patch_info[i]))
    /\ UNCHANGED <<env, clock, patch_info, previous_patch_info,
                   has_changed, pushed, lastWritten>>
    /\ UNCHANGED webVars

\* lines 136-145: send_line_message raises
SendFails(i) ==
    /\ pc[i] = "send"
    /\ Logged(i, "push_fail")
    /\ Leave(i, Response(500, "send_failed"))
    /\ lostKey' = Key(patch_info[i])
    /\ lostStillStored' = (store # None /\ Key(store) = Key(patch_info[i]))
    /\ UNCHANGED <<env, store, clock, patch_info, previous_patch_info,
                   has_changed, pushed, lastWritten>>
    /\ UNCHANGED webVars

\* lines 136-141 and 16-28: one push of the fixed text; without an access
\* token the API refuses, without a recipient the request is invalid
SendOk(i) ==
    /\ pc[i] = "send"
    /\ ~Missing(env.LINE_CHANNEL_ACCESS_TOKEN)
    /\ ~Missing(env.LINE_TO_ID)
    /\ pushed' = [pushed EXCEPT ![i] = Append(@, [to |-> "LINE_TO_ID", text |-> PushText])]
    /\ Logged(i, "push_ok")
    /\ pc' = [pc EXCEPT ![i] = "end"]
    /\ UNCHANGED <<env, store, clock, patch_info, previous_patch_info,
                   has_changed, result, lastWritten, lostKey, lostStillStored>>
    /\ UNCHANGED webVars

\* the end of lambda_handler is reached: it returns None
FallOffEnd(i) ==
    /\ pc[i] = "end"
    /\ Leave(i, ReturnsNone)
    /\ UNCHANGED <<env, store, clock, patch_info, previous_patch_info,
                   has_changed, log, pushed, lastWritten, lostKey,
                   lostStillStored>>
    /\ UNCHANGED webVars

\* the frame of the invocation is gone: nothing is kept between invocations
Return(i) ==
    /\ pc[i] = "returning"
    /\ pc' = [pc EXCEPT ![i] = "done"]
    /\ patch_info' = [patch_info EXCEPT ![i] = None]
    /\ previous_patch_info' = [previous_patch_info EXCEPT ![i] = None]
    /\ has_changed' = [has_changed EXCEPT ![i] = FALSE]
    /\ UNCHANGED <<env, store, clock, result, log, pushed, lastWritten,
                   lostKey, lostStillStored>>
    /\ UNCHANGED webVars

Step(i) ==
    \/ ScrapeFails(i)
    \/ GetPreviousFails(i)
    \/ GetPreviousOk(i)
    \/ Compare(i)
    \/ SaveRaisesTypeError(i)
    \/ SaveFails(i)
    \/ SaveOk(i)
    \/ SendFails(i)
    \/ SendOk(i)
    \/ FallOffEnd(i)
    \/ Return(i)

----------------------------------------------------------------------------
(* line-webhook-handler.py *)

\* a local that is not bound (yet, or any more)
Unbound == "unbound"

\* stands for an exception coming out of a call
Raised == "raised"

\* the fixed apology of invoke_haiku (line 59)
Apology == "apology"

\* the default of line 53 when the first content element has no text
NoAnswerText == "no_answer"

\* a text the model generated
GeneratedText == "generated_text"

\* the event types a body carries: a text message, or any other event
EventTypes == {"text", "other"}

Bodies == UNION {[1..n -> EventTypes] : n \in 0..MaxEvents}

\* an inbound request: the 'headers' entry (missing or a mapping), the
\* x-line-signature header in it (none, not matching the body, matching),
\* and the 'body' entry (missing, or the events it carries)
Requests ==
    [headers : {"absent", "present"},
     sig     : {"none", "bad", "good"},
     body    : [events : Bodies] \cup {None}]

\* what bedrock_runtime.invoke_model and the reading of its response can do
\* (lines 47-53): generated text, a first content element without text, a
\* raised call, a response that cannot be read
ModelOutcomes == {"text", "no_text", "throws", "unreadable"}

\* an invoke_haiku that lets the failure of the model out
invoke_haiku_propagating(outcome) ==
    CASE outcome = "text"    -> GeneratedText
      [] outcome = "no_text" -> NoAnswerText
      [] OTHER               -> Raised

\* invoke_haiku, lines 20-59, given what the hosted model does; every
\* exception is caught at line 57
invoke_haiku(outcome) ==
    CASE outcome = "text"    -> GeneratedText
      [] outcome = "no_text" -> NoAnswerText
      [] OTHER               -> Apology

WLeave(r) ==
    /\ wresult' = r
    /\ wpc' = "returning"

\* lines 10-18, at import: WebhookHandler(None) raises at line 17 (the
\* secret is encoded), boto3.client raises at line 18 on an empty region
\* name; without a region name the host's default region is used, if any
ModuleInit ==
    /\ wpc = "import"
    /\ \/ /\ wenv.LINE_CHANNEL_SECRET # "unset"
          /\ wenv.BEDROCK_REGION # "empty"
          /\ wpc' = "ready"
       \/ /\ \/ wenv.LINE_CHANNEL_SECRET = "unset"
             \/ wenv.BEDROCK_REGION # "set"
          /\ wpc' = "import_failed"
    /\ UNCHANGED <<wenv, event, signature, body, idx, ai_response, wresult,
                   calls, replies, replyFailed>>
    /\ UNCHANGED chkVars

\* the platform delivers a request to the warm process
Receive ==
    /\ wpc = "ready"
    /\ \E req \in Requests : event' = req
    /\ wpc' = "check_env"
    /\ wresult' = Pending
    /\ calls' = <<>>
    /\ replies' = <<>>
    /\ replyFailed' = FALSE
    /\ UNCHANGED <<wenv, signature, body, idx, ai_response>>
    /\ UNCHANGED chkVars

\* lines 63-65: the region is not among the values checked
WebCheckEnv ==
    /\ wpc = "check_env"
    /\ IF \/ Missing(wenv.LINE_CHANNEL_ACCESS_TOKEN)
          \/ Missing(wenv.LINE_CHANNEL_SECRET)
          \/ Missing(wenv.BEDROCK_MODEL_ID)
       THEN WLeave(Response(500, "missing_environment_variables"))
       ELSE /\ wpc' = "read_signature"
            /\ UNCHANGED wresult
    /\ UNCHANGED <<wenv, event, signature, body, idx, ai_response, calls,
                   replies, replyFailed>>
    /\ UNCHANGED chkVars

\* lines 68-71, outside every try: event['headers'] raises when the entry
\* is missing; a missing signature header is answered with 400
ReadSignature ==
    /\ wpc = "read_signature"
    /\ IF event.headers = "absent"
       THEN /\ WLeave(Unhandled("KeyError"))
            /\ UNCHANGED signature
       ELSE IF event.sig = "none"
            THEN /\ WLeave(Response(400, "missing_signature_header"))
                 /\ UNCHANGED signature
            ELSE /\ signature' = event.sig
                 /\ wpc' = "read_body"
                 /\ UNCHANGED wresult
    /\ UNCHANGED <<wenv, event, body, idx, ai_response, calls, replies,
                   replyFailed>>
    /\ UNCHANGED chkVars

\* line 74, outside every try: event['body'] raises when the entry is missing
ReadBody ==
    /\ wpc = "read_body"
    /\ IF event.body = None
       THEN /\ WLeave(Unhandled("KeyError"))
            /\ UNCHANGED body
       ELSE /\ body' = event.body.events
            /\ wpc' = "verify"
            /\ UNCHANGED wresult
    /\ UNCHANGED <<wenv, event, signature, idx, ai_response, calls, replies,
                   replyFailed>>
    /\ UNCHANGED chkVars

\* a verification that lets every signature through
VerifyAccepts(sig) == TRUE

\* the signature check at the head of handler.handle (line 79)
Verifies(sig) == sig = "good"

\* lines 77-84: handler.handle first validates the signature against the
\* body and raises InvalidSignatureError, answered with 400
Verify ==
    /\ wpc = "verify"
    /\ IF Verifies(signature)
       THEN /\ idx' = 1
            /\ wpc' = "dispatch"
            /\ UNCHANGED wresult
       ELSE /\ WLeave(Response(400, "invalid_signature"))
            /\ UNCHANGED idx
    /\ UNCHANGED <<wenv, event, signature, body, ai_response, calls, replies,
                   replyFailed>>
    /\ UNCHANGED chkVars

\* lines 79-80 and 90: handler.handle goes through the events of the body;
\* a text message goes to handle_message, any other event has no handler;
\* after the last event the handler answers 200
Dispatch ==
    /\ wpc = "dispatch"
    /\ IF idx > Len(body)
       THEN /\ WLeave(Response(200, "OK"))
            /\ UNCHANGED idx
       ELSE IF body[idx] = "text"
            THEN /\ wpc' = "invoke"
                 /\ UNCHANGED <<idx, wresult>>
            ELSE /\ idx' = idx + 1
                 /\ UNCHANGED <<wpc, wresult>>
    /\ UNCHANGED <<wenv, event, signature, body, ai_response, calls, replies,
                   replyFailed>>
    /\ UNCHANGED chkVars

\* lines 93-99: handle_message hands the text to invoke_haiku
Invoke ==
    /\ wpc = "invoke"
    /\ \E outcome \in ModelOutcomes :
          /\ ai_response' = invoke_haiku(outcome)
          /\ calls' = Append(calls, [event |-> idx, outcome |-> outcome])
    /\ wpc' = IF ai_response' = Raised THEN "raise" ELSE "reply"
    /\ UNCHANGED <<wenv, event, signature, body, idx, wresult, replies,
                   replyFailed>>
    /\ UNCHANGED chkVars

\* an exception raised inside handler.handle is caught at lines 85-87
HandleRaises ==
    /\ wpc = "raise"
    /\ WLeave(Response(500, "error_handling_event"))
    /\ UNCHANGED <<wenv, event, signature, body, idx, ai_response, calls,
                   replies, replyFailed>>
    /\ UNCHANGED chkVars

\* lines 102-107: the reply is delivered on the event's reply token
ReplyOk ==
    /\ wpc = "reply"
    /\ replies' = Append(replies, [reply_token |-> idx, text |-> ai_response])
    /\ idx' = idx + 1
    /\ wpc' = "dispatch"
    /\ UNCHANGED <<wenv, event, signature, body, ai_response, wresult, calls,
                   replyFailed>>
    /\ UNCHANGED chkVars

\* lines 102-107: reply_message raises
ReplyFails ==
    /\ wpc = "reply"
    /\ replyFailed' = TRUE
    /\ wpc' = "raise"
    /\ UNCHANGED <<wenv, event, signature, body, idx, ai_response, wresult,
                   calls, replies>>
    /\ UNCHANGED chkVars

\* the frame of the invocation is gone; the process stays warm
WReturn ==
    /\ wpc = "returning"
    /\ wpc' = "ready"
    /\ signature' = Unbound
    /\ body' = <<>>
    /\ idx' = 0
    /\ ai_response' = Unbound
    /\ UNCHANGED <<wenv, event, wresult, calls, replies, replyFailed>>
    /\ UNCHANGED chkVars

----------------------------------------------------------------------------
(* Specifications *)

InitLocals ==
    /\ clock = 0
    /\ pc = [i \in Inv |-> "idle"]
    /\ patch_info = [i \in Inv |-> None]
    /\ previous_patch_info = [i \in Inv |-> None]
    /\ has_changed = [i \in Inv |-> FALSE]
    /\ result = [i \in Inv |-> Pending]
    /\ log = [i \in Inv |-> <<>>]
    /\ pushed = [i \in Inv |-> <<>>]
    /\ lastWritten = None
    /\ lostKey = None
    /\ lostStillStored = FALSE

\* the environment of the process: each of the four values set or not
\* (os.environ.get gives None; `not X` treats None and "" alike)
EnvChoices ==
    [LINE_CHANNEL_ACCESS_TOKEN : {"unset", "set"},
     LINE_TO_ID                : {"unset", "set"},
     TARGET_SCRAPING_URL       : {"unset", "set"},
     DYNAMODB_TABLE_NAME       : {"unset", "set"}]

EnvAllSet ==
    [LINE_CHANNEL_ACCESS_TOKEN |-> "set",
     LINE_TO_ID                |-> "set",
     TARGET_SCRAPING_URL       |-> "set",
     DYNAMODB_TABLE_NAME       |-> "set"]

WebEnvChoices ==
    [LINE_CHANNEL_ACCESS_TOKEN : EnvVals,
     LINE_CHANNEL_SECRET       : EnvVals,
     BEDROCK_MODEL_ID          : EnvVals,
     BEDROCK_REGION            : EnvVals]

WebEnvAllSet ==
    [LINE_CHANNEL_ACCESS_TOKEN |-> "set",
     LINE_CHANNEL_SECRET       |-> "set",
     BEDROCK_MODEL_ID          |-> "set",
     BEDROCK_REGION            |-> "set"]

WebInitLocals ==
    /\ wpc = "import"
    /\ event = None
    /\ signature = Unbound
    /\ body = <<>>
    /\ idx = 0
    /\ ai_response = Unbound
    /\ wresult = Pending
    /\ calls = <<>>
    /\ replies = <<>>
    /\ replyFailed = FALSE

\* the webhook process, not yet imported
WebIdle == wenv = WebEnvAllSet /\ WebInitLocals

\* first deployment: the table is empty
Init ==
    /\ env \in EnvChoices
    /\ store = None
    /\ InitLocals
    /\ WebIdle

Next == \E i \in 1..NumInv : StartSerial(i) \/ ScrapeOk(i, Pages) \/ Step(i)

\* invocations serialized by the scheduling trigger
Spec == Init /\ [][Next]_vars

\* a configured deployment whose table may hold an earlier record
InitOverlap ==
    /\ env = EnvAllSet
    /\ store \in {None} \cup
                {item_to_save(ItemKey, scrape_latest_update_info(p), 0) :
                    p \in {q \in OverlapPages : q.live # None}}
    /\ InitLocals
    /\ WebIdle

NextOverlap ==
    \E i \in 1..NumOverlap :
        StartOverlap(i) \/ ScrapeOk(i, OverlapPages) \/ Step(i)

\* invocations that the trigger lets overlap
SpecOverlap == InitOverlap /\ [][NextOverlap]_vars

\* the webhook process under any configuration; the update checker is idle
InitWebhook ==
    /\ wenv \in WebEnvChoices
    /\ WebInitLocals
    /\ env = EnvAllSet
    /\ store = None
    /\ InitLocals

NextWebhook ==
    \/ ModuleInit
    \/ Receive
    \/ WebCheckEnv
    \/ ReadSignature
    \/ ReadBody
    \/ Verify
    \/ Dispatch
    \/ Invoke
    \/ HandleRaises
    \/ ReplyOk
    \/ ReplyFails
    \/ WReturn

SpecWebhook == InitWebhook /\ [][NextWebhook]_vars

----------------------------------------------------------------------------
(* Properties of the update checker *)

Has(seq, x) == \E k \in 1..Len(seq) : seq[k] = x

Count(seq, x) == Cardinality({k \in 1..Len(seq) : seq[k] = x})

\* the invocation has evaluated lines 113-120 and its frame still exists
Compared(i) == pc[i] # "done" /\ Has(log[i], "compare")

\* the invocation is about to hand its result to the host
Ending(i) == pc[i] = "returning"

\* no call to the page, the table or the push API raised in the invocation
NoExternalFailure(i) ==
    /\ ~Has(log[i], "fetch_fail")
    /\ ~Has(log[i], "read_fail")
    /\ ~Has(log[i], "write_fail")
    /\ ~Has(log[i], "push_fail")

\* C1: once lambda_handler has compared, has_changed is true exactly when
\* the stored record is absent, or its date differs from the extracted
\* record's date, or its anchor_id differs from the extracted record's
\* anchor_id; title and url play no part.
C1_ChangeDecision ==
    \A i \in Inv :
        Compared(i) =>
            (has_changed[i] <=>
                \/ previous_patch_info[i] = None
                \/ /\ patch_info[i] # None
                   /\ \/ previous_patch_info[i].date # patch_info[i].date
                      \/ previous_patch_info[i].anchor_id # patch_info[i].anchor_id)

\* C1, witness: a stored and an extracted record that agree on date and
\* anchor_id and differ in title were compared, and no change was decided
C1_Witness ==
    \E i \in Inv :
        /\ Compared(i)
        /\ previous_patch_info[i] # None
        /\ patch_info[i] # None
        /\ Key(previous_patch_info[i]) = Key(patch_info[i])
        /\ previous_patch_info[i].title # patch_info[i].title
        /\ ~has_changed[i]

\* C2: in an invocation in which no external call fails, a detected change
\* (the first run with an empty store included) ends with exactly one write
\* of the extracted record and exactly one push of the fixed text; no
\* detected change ends with no write, no push and the stored item as read.
C2_ChangeWritesAndPushesOnce ==
    \A i \in Inv :
        (Ending(i) /\ NoExternalFailure(i) /\ Has(log[i], "compare")) =>
            IF has_changed[i]
            THEN /\ Count(log[i], "write_ok") = 1
                 /\ store # None
                 /\ patch_info[i] # None
                 /\ Fields(store) = patch_info[i]
                 /\ pushed[i] = <<[to |-> "LINE_TO_ID", text |-> PushText]>>
            ELSE /\ Count(log[i], "write_ok") = 0
                 /\ pushed[i] = <<>>
                 /\ store = previous_patch_info[i]

\* C3: when the page holds no patch container and the fetch and the store
\* read succeed, the invocation ends without an unhandled error and without
\* a failure result, with no store write and no push.
C3_NoContainerIsNotAFailure ==
    \A i \in Inv :
        (/\ Ending(i)
         /\ Has(log[i], "fetch_ok")
         /\ Has(log[i], "read_ok")
         /\ patch_info[i] = None) =>
            /\ result[i].kind = "return"
            /\ result[i].statusCode # 500
            /\ ~Has(log[i], "write_ok")
            /\ pushed[i] = <<>>

\* C6: in both handlers, an invocation with a required configuration value
\* missing ends with a reported failure result (a failure status code and
\* a message), not as a success and not as an unhandled error.  For the
\* update checker the formula speaks of the invocations that return (the
\* exceptions that leave it are the matter of C7); for the webhook handler
\* it also excludes the failed import.
C6_MissingConfigIsReported ==
    /\ \A i \in Inv :
          (/\ Ending(i)
           /\ \E k \in DOMAIN env : Missing(env[k])
           /\ result[i].kind = "return") =>
              result[i].statusCode = 500
    /\ (\E k \in DOMAIN wenv : Missing(wenv[k])) =>
          /\ wpc # "import_failed"
          /\ wpc = "returning" =>
                (wresult.kind = "return" /\ wresult.statusCode = 500)

\* the pipeline step a log entry belongs to
Rank(e) ==
    CASE e \in {"config_ok", "config_error_printed"}        -> 0
      [] e \in {"fetch_ok", "fetch_fail"}                   -> 1
      [] e \in {"read_ok", "read_fail"}                     -> 2
      [] e \in {"compare", "compare_raise"}                 -> 3
      [] e \in {"write_ok", "write_fail", "save_type_error"} -> 4
      [] e \in {"push_ok", "push_fail"}                     -> 5

\* C8: within one invocation the steps come in the order fetch, store read,
\* comparison, store write, push, each at most once; a store write comes
\* only after a successful read and a comparison that decided a change, and
\* a push only after the store write of the same invocation succeeded.
C8_StepOrder ==
    \A i \in Inv :
        /\ \A a, b \in 1..Len(log[i]) : a < b => Rank(log[i][a]) < Rank(log[i][b])
        /\ \A k \in 1..Len(log[i]) :
              /\ Rank(log[i][k]) = 2 => Has(SubSeq(log[i], 1, k - 1), "fetch_ok")
              /\ Rank(log[i][k]) = 3 => Has(SubSeq(log[i], 1, k - 1), "read_ok")
              /\ Rank(log[i][k]) = 4 => Has(SubSeq(log[i], 1, k - 1), "compare")
              /\ Rank(log[i][k]) = 5 => Has(SubSeq(log[i], 1, k - 1), "write_ok")
        /\ (pc[i] # "done" /\ \E k \in 1..Len(log[i]) : Rank(log[i][k]) >= 4)
              => has_changed[i]
        /\ Len(pushed[i]) = Count(log[i], "push_ok")

\* C8, witness: an invocation went through all five steps
C8_Witness ==
    \E i \in Inv :
        /\ pc[i] = "end"
        /\ log[i] = <<"config_ok", "fetch_ok", "read_ok", "compare",
                      "write_ok", "push_ok">>

\* a later invocation than the one whose push failed has compared a record
\* with the date and anchor_id that were stored and never pushed
ComparedLostKey(i) ==
    /\ Compared(i)
    /\ ~Has(log[i], "push_fail")
    /\ patch_info[i] # None
    /\ lostKey # None
    /\ Key(patch_info[i]) = lostKey

\* C9, as stated: after a successful write followed by a failed push, every
\* later invocation that extracts a record with the same date and anchor_id
\* detects no change and sends no push.
C9_NeverRenotified ==
    \A i \in Inv :
        ComparedLostKey(i) => (~has_changed[i] /\ pushed[i] = <<>>)

\* C9, amended: the invocation whose push fails after a successful write
\* returns a failure result and leaves the new record stored; as long as no
\* invocation has stored a record with another date or anchor_id since,
\* that record stays stored and every later invocation that extracts a
\* record with the same date and anchor_id detects no change and sends no
\* push.
C9_NotRenotifiedWhileStored ==
    /\ \A i \in Inv :
          (Ending(i) /\ Has(log[i], "push_fail")) =>
              /\ result[i] = Response(500, "send_failed")
              /\ store # None
              /\ Fields(store) = patch_info[i]
              /\ lostStillStored
    /\ lostStillStored => (store # None /\ Key(store) = lostKey)
    /\ \A i \in Inv :
          (ComparedLostKey(i) /\ lostStillStored) =>
              (~has_changed[i] /\ pushed[i] = <<>>)

\* C9, witness: a record was stored and its push failed, and a later
\* invocation extracted the same date and anchor_id and ended silently
C9_Witness ==
    \E i \in Inv :
        /\ ComparedLostKey(i)
        /\ lostStillStored
        /\ Ending(i)
        /\ result[i] = ReturnsNone
        /\ \E j \in Inv : j < i /\ Has(log[j], "push_fail")

\* C10: the put replaces the stored item whatever any invocation has read
\* (last writer wins), and an invocation writes on the strength of its own
\* earlier read alone, so overlapping invocations can each write and push
\* for one and the same change.
C10_LastWriterWins ==
    /\ lastWritten # None => store = lastWritten
    /\ \A i \in Inv :
          (pc[i] # "done" /\ Has(log[i], "write_ok")) =>
              /\ patch_info[i] # None
              /\ \/ previous_patch_info[i] = None
                 \/ Key(previous_patch_info[i]) # Key(patch_info[i])

\* C10, witness: two overlapping invocations read the same stored record,
\* extracted the same new record, and each wrote the store and sent a push
C10_Witness ==
    \E i, j \in Inv :
        /\ i # j
        /\ pc[i] = "end" /\ pc[j] = "end"
        /\ previous_patch_info[i] # None
        /\ previous_patch_info[i] = previous_patch_info[j]
        /\ patch_info[i] = patch_info[j]
        /\ Has(log[i], "write_ok") /\ Has(log[j], "write_ok")
        /\ Len(pushed[i]) = 1 /\ Len(pushed[j]) = 1

----------------------------------------------------------------------------
(* Properties of the webhook handler *)

\* the request carries headers and a body, and its signature header is
\* missing or does not match the body
SignatureInvalid ==
    /\ event # None
    /\ event.headers = "present"
    /\ event.body # None
    /\ event.sig # "good"

\* a configuration value that lambda_handler checks (line 63) is missing
CheckedConfigMissing ==
    \/ Missing(wenv.LINE_CHANNEL_ACCESS_TOKEN)
    \/ Missing(wenv.LINE_CHANNEL_SECRET)
    \/ Missing(wenv.BEDROCK_MODEL_ID)

\* the model invocation for event k failed
ModelFailed(k) ==
    \E c \in 1..Len(calls) :
        calls[c].event = k /\ calls[c].outcome \in {"throws", "unreadable"}

RepliesOn(k) == {r \in 1..Len(replies) : replies[r].reply_token = k}

C5_ApologyAnd200 ==
    (wpc = "returning" /\ \E k \in 1..MaxEvents + 1 : ModelFailed(k)) =>
        /\ \A k \in 1..MaxEvents + 1 :
              ModelFailed(k) =>
                  /\ Cardinality(RepliesOn(k)) = 1
                  /\ \A r \in RepliesOn(k) : replies[r].text = Apology
        /\ wresult = Response(200, "OK")

\* C5, amended: a failed model invocation never leaves handle_message as an
\* exception; the reply for that event carries the apology; when no reply
\* send of the request fails, exactly one reply with the apology is sent on
\* the event's reply token and the handler returns HTTP 200; when a reply
\* send fails, that reply is not delivered and the handler returns 500.
C5_ApologyUnlessReplyFails ==
    /\ wpc = "raise" => replyFailed
    /\ (wpc = "reply" /\ ModelFailed(idx)) => ai_response = Apology
    /\ \A k \in 1..MaxEvents + 1 :
          ModelFailed(k) =>
              /\ Cardinality(RepliesOn(k)) <= 1
              /\ \A r \in RepliesOn(k) : replies[r].text = Apology
    /\ (wpc = "returning" /\ \E k \in 1..MaxEvents + 1 : ModelFailed(k)) =>
          IF replyFailed
          THEN wresult = Response(500, "error_handling_event")
          ELSE /\ \A k \in 1..MaxEvents + 1 :
                     ModelFailed(k) => Cardinality(RepliesOn(k)) = 1
               /\ wresult = Response(200, "OK")

\* C5, witness: the model call raised, the apology was replied once, 200
C5_Witness ==
    /\ wpc = "returning"
    /\ event.sig = "good"
    /\ \E c \in 1..Len(calls) : calls[c].outcome = "throws"
    /\ \E k \in 1..MaxEvents :
          /\ ModelFailed(k)
          /\ Cardinality(RepliesOn(k)) = 1
          /\ \A r \in RepliesOn(k) : replies[r] = [reply_token |-> k, text |-> Apology]
    /\ wresult = Response(200, "OK")

\* C7: in every invocation of either handler, a failing step is caught and
\* the invocation ends by returning a structured result; no failure leaves
\* the handler as an unhandled exception.
C7_EveryFailureIsCaught ==
    /\ wpc = "returning" => wresult.kind = "return"
    /\ \A i \in Inv : Ending(i) => result[i].kind = "return"

=============================================================================
